---- MODULE Spec2Model ----
(***************************************************************************)
(* Model of the RAG service of backend/main.py and backend/ingest.py:      *)
(* the ingestion pipeline ingest(), its single-flight guard _run_ingest,   *)
(* the triggers (lifespan startup, POST /ingest background task, file      *)
(* watcher submitting to the single-worker executor) and the read          *)
(* endpoints /query, /debug and /health.                                   *)
(*                                                                         *)
(* Threads.  The request handlers and lifespan are coroutines without an   *)
(* await inside the handler body, so they run one at a time on the event   *)
(* loop; _run_ingest runs on other threads (the executor's worker, the     *)
(* thread pool that runs background tasks), which interleave with the      *)
(* event loop at every statement.  The watchdog observer is a thread too.  *)
(***************************************************************************)
EXTENDS Integers, FiniteSets, Sequences, TLC

(* ---- bounds of the model (not program constants) ---- *)
MaxEvents == 2        \* file-system events delivered by the observer
MaxPosts == 1         \* POST /ingest requests answered "started"
LastEmptyPass == 1    \* passes 1..LastEmptyPass may package zero documents
MaxMatches == 2       \* files that match one name pattern
MaxPairs == 2         \* pairs in the list given to pairs_to_documents
MaxPerPass == 5       \* pairs in the answer to one generation call of a run
MaxRetrieved == 2     \* documents that one search of /query returns
MaxRaw == 4           \* pieces of the text of one response of the model

(* ---- program constants ---- *)
NumDatasets == 6      \* load(...) calls of ingest()
NumPasses == 7        \* generation calls of ingest(): six per-file, one comparison
NoStore == -1         \* vectorstore is None

Free == "free"        \* _ingest_lock not held

Passes == 1..NumPasses
Datasets == 1..NumDatasets
BgThreads == {"bg" \o ToString(i) : i \in 1..MaxPosts}
RunThreads == {"worker"} \cup BgThreads          \* threads that call _run_ingest
Threads == {"lifespan"} \cup RunThreads          \* threads that call ingest()

VARIABLES
    hasKey,          \* GROQ_API_KEY is set in the environment
    app,             \* position of lifespan: boot, ingest, open, serving, stopped, crashed
    vectorstore,     \* main.vectorstore: NoStore or the generation of the Index it was opened on
    llm,             \* main.llm is not None
    disk,            \* CHROMA_DIR: [exists, gen, docs]; gen counts the writes of the
                     \* collection, docs are <<gen of the write, pass>>
    ingest_lock,     \* _ingest_lock: Free or the thread that holds it
    ingest_running,  \* _ingest_running
    executor,        \* work queue of _executor: sequence of submitted _run_ingest tasks
    pc,              \* position of each thread
    passIdx,         \* next generation call of the thread's ingest()
    all_docs,        \* all_docs of the thread's ingest(): the passes with documents in it
    outcome,         \* how the thread's last _run_ingest / ingest() ended
    busyAtArrival,   \* the thread's trigger arrived while _ingest_running was set
    matched,         \* what the patterns of the thread's load matched: zero, multi, exact
    nevents,         \* observer events that submitted a task so far
    started,         \* bg threads whose POST /ingest was answered "started"
    qpc,             \* position of the /query handler: idle, search
    seen,            \* what the last read of the Index by an endpoint returned
    call             \* a call of one of the pure functions on its own: [fn, arg, ret, done]

vars == <<hasKey, app, vectorstore, llm, disk, ingest_lock, ingest_running,
          executor, pc, passIdx, all_docs, outcome, busyAtArrival, matched,
          nevents, started, qpc, seen, call>>

threadVars == <<pc, passIdx, all_docs, outcome, busyAtArrival, matched>>

serviceVars == <<hasKey, app, vectorstore, llm, disk, ingest_lock, ingest_running,
                 executor, pc, passIdx, all_docs, outcome, busyAtArrival, matched,
                 nevents, started, qpc, seen>>

Absent == [exists |-> FALSE, gen |-> 0, docs |-> {}]

\* documents of a complete earlier run, left on disk by a previous process
OldIndex == [exists |-> TRUE, gen |-> 0, docs |-> {<<0, p>> : p \in Passes}]

\* a rmtree that leaves the directory as it is
rmtree_kept(d) == d

\* run with shutil.rmtree: the directory and everything in it is gone
rmtree(d) == [d EXCEPT !.exists = FALSE, !.docs = {}]

\* Chroma.from_documents: opens (or creates) the collection in the directory
\* and adds the documents to it
from_documents(d, docs) ==
    [exists |-> TRUE, gen |-> d.gen + 1,
     docs |-> (IF d.exists THEN d.docs ELSE {}) \cup ({d.gen + 1} \X docs)]

\* Chroma(persist_directory=...): a handle on the Index as it is now; opening a
\* directory that does not exist creates an empty collection in it
Chroma(d) == d.gen

ChromaDisk(d) == IF d.exists THEN d ELSE [d EXCEPT !.exists = TRUE, !.docs = {}]

\* an acquire whose result is not looked at
acquire_unchecked(l) == TRUE

\* _ingest_lock.acquire(blocking=False)
acquire(l) == l = Free

\* a response of the model to one generation call: the completion call returns
\* (api), the text holds a "[" / a "]", the text between them is a JSON array,
\* and the number of its pairs that have a question and an answer
Responses == [api : BOOLEAN, lbracket : BOOLEAN, rbracket : BOOLEAN,
              json : BOOLEAN, pairs : 0..1]

\* _call_llm and pairs_to_documents of one pass: raised, or the documents kept
call_llm(resp) ==
    IF ~resp.api THEN [raised |-> TRUE, ndocs |-> 0]
    ELSE IF ~resp.lbracket \/ ~resp.rbracket THEN [raised |-> FALSE, ndocs |-> 0]
    ELSE IF ~resp.json THEN [raised |-> TRUE, ndocs |-> 0]
    ELSE [raised |-> FALSE, ndocs |-> resp.pairs]

\* a load that does not look at the number of matches
load_unchecked(n, readable) == IF readable THEN "ok" ELSE "raise"

\* load(name) of ingest(): n files match the pattern; raised, or reads matches[0]
load(n, readable) == IF n = 0 THEN "raise" ELSE IF readable THEN "ok" ELSE "raise"

\* summary of the match counts of the six patterns
Matched(m) ==
    IF \E i \in Datasets : m[i] = 0 THEN "zero"
    ELSE IF \E i \in Datasets : m[i] > 1 THEN "multi"
    ELSE "exact"

\* where ingest() returns to and where an exception of it lands, per caller:
\* lifespan calls ingest() bare, _run_ingest inside try/except/finally
Returned(t) == IF t = "lifespan" THEN "open" ELSE "reload"

\* an exception that leaves _run_ingest without passing through finally
Raised_past_finally(t) == IF t = "lifespan" THEN "crashed" ELSE "returned"

Raised(t) == IF t = "lifespan" THEN "crashed" ELSE "finally"

InIngest(t) == pc[t] \in {"load", "gen", "discard", "embed", "write"}
InRun(t) == pc[t] \in {"acquired", "load", "gen", "discard", "embed", "write",
                       "reload", "finally", "release"}

IdleThread == [t \in Threads |-> "idle"]

\* no function is being called on its own
NoCall == [fn |-> "none"]

\* the service before lifespan has run
Boot ==
    /\ hasKey \in BOOLEAN
    /\ app = "boot"
    /\ vectorstore = NoStore
    /\ llm = FALSE
    /\ disk \in {Absent, OldIndex}
    /\ ingest_lock = Free
    /\ ingest_running = FALSE
    /\ executor = <<>>
    /\ pc = IdleThread
    /\ passIdx = [t \in Threads |-> 1]
    /\ all_docs = [t \in Threads |-> {}]
    /\ outcome = [t \in Threads |-> "none"]
    /\ busyAtArrival = [t \in Threads |-> FALSE]
    /\ matched = [t \in Threads |-> "none"]
    /\ nevents = 0
    /\ started = {}
    /\ qpc = "idle"
    /\ seen = "none"

Init == call = NoCall /\ Boot

\* the event loop is free to run another handler
LoopFree == qpc = "idle"

(* ---------------- ingest(), ingest.py 290-351 ---------------- *)

\* entry of ingest() by thread t: a new invocation
begin_ingest(t) ==
    /\ passIdx' = [passIdx EXCEPT ![t] = 1]
    /\ all_docs' = [all_docs EXCEPT ![t] = {}]
    /\ matched' = [matched EXCEPT ![t] = "none"]

\* lines 301-313: the six load(...) calls, in order; the first one that raises
\* ends the run
RECURSIVE loads(_, _, _)
loads(i, m, readable) ==
    IF i > NumDatasets THEN "ok"
    ELSE IF load(m[i], readable) = "raise" THEN "raise"
    ELSE loads(i + 1, m, readable)

\* match counts of the six patterns: at most one pattern (z) without a match,
\* the first pattern with n >= 1 matches, the others with exactly one
MatchCounts ==
    {[i \in Datasets |-> IF i = z THEN 0 ELSE IF i = 1 THEN n ELSE 1] :
        z \in 0..NumDatasets, n \in 1..MaxMatches}

\* an ingest() that clears CHROMA_DIR before it loads the datasets
ingest_load_clearing(t) ==
    /\ pc[t] = "load"
    /\ disk' = IF disk.exists THEN rmtree(disk) ELSE disk
    /\ \E m \in MatchCounts, readable \in BOOLEAN :
         LET ok == loads(1, m, readable) = "ok" IN
         /\ matched' = [matched EXCEPT ![t] =
                IF ~ok /\ Matched(m) # "zero" THEN "none" ELSE Matched(m)]
         /\ pc' = [pc EXCEPT ![t] = IF ok THEN "gen" ELSE Raised(t)]
         /\ outcome' = [outcome EXCEPT ![t] = IF ok THEN @ ELSE "fail_load"]
         /\ app' = IF ~ok /\ t = "lifespan" THEN "crashed" ELSE app
    /\ UNCHANGED <<call, hasKey, vectorstore, llm, ingest_lock, ingest_running,
                   executor, passIdx, all_docs, busyAtArrival, nevents,
                   started, qpc, seen>>

ingest_load(t) ==
    /\ pc[t] = "load"
    /\ \E m \in MatchCounts, readable \in BOOLEAN :
         LET ok == loads(1, m, readable) = "ok" IN
         /\ matched' = [matched EXCEPT ![t] =
                IF ~ok /\ Matched(m) # "zero" THEN "none" ELSE Matched(m)]
         /\ pc' = [pc EXCEPT ![t] = IF ok THEN "gen" ELSE Raised(t)]
         /\ outcome' = [outcome EXCEPT ![t] = IF ok THEN @ ELSE "fail_load"]
         /\ app' = IF ~ok /\ t = "lifespan" THEN "crashed" ELSE app
    /\ UNCHANGED <<call, hasKey, vectorstore, llm, disk, ingest_lock, ingest_running,
                   executor, passIdx, all_docs, busyAtArrival, nevents,
                   started, qpc, seen>>

\* a well-formed response with a usable pair, responses that raise, and
\* responses that package no document
GoodResponse == [api |-> TRUE, lbracket |-> TRUE, rbracket |-> TRUE, json |-> TRUE, pairs |-> 1]
RaisingResponses ==
    {[GoodResponse EXCEPT !.api = FALSE],      \* the completion call raises
     [GoodResponse EXCEPT !.json = FALSE]}     \* "[" ... "]" that json.loads rejects
EmptyResponses ==
    {[GoodResponse EXCEPT !.lbracket = FALSE, !.json = FALSE],   \* no "["
     [GoodResponse EXCEPT !.rbracket = FALSE, !.json = FALSE],   \* no "]"
     [GoodResponse EXCEPT !.pairs = 0]}        \* no pair with question and answer

\* the responses of the seven generation calls of one run: good ones, but
\* for one pass whose response raises, or for some of the passes
\* 1..LastEmptyPass whose responses hold no document
RunResponses ==
    {[i \in Passes |-> IF i = f THEN bad ELSE GoodResponse] :
        f \in Passes, bad \in RaisingResponses}
    \cup
    {[i \in Passes |-> IF i \in e THEN empty ELSE GoodResponse] :
        e \in SUBSET (1..LastEmptyPass), empty \in EmptyResponses}

\* lines 315-330: all_docs += qa_for_...(...) for the passes i..NumPasses in
\* order; a pass whose _call_llm raises ends ingest() there
RECURSIVE passes(_, _, _)
passes(i, docs, resps) ==
    IF i > NumPasses THEN [raised |-> FALSE, next |-> i, docs |-> docs]
    ELSE LET r == call_llm(resps[i]) IN
         IF r.raised THEN [raised |-> TRUE, next |-> i, docs |-> docs]
         ELSE passes(i + 1, docs \cup (IF r.ndocs > 0 THEN {i} ELSE {}), resps)

\* the generation calls touch nothing but the locals of ingest(), so the
\* seven of them are one step of the thread
ingest_pass(t) ==
    /\ pc[t] = "gen"
    /\ \E resps \in RunResponses :
         LET r == passes(1, {}, resps) IN
         /\ passIdx' = [passIdx EXCEPT ![t] = IF r.raised THEN 1 ELSE r.next]
         /\ all_docs' = [all_docs EXCEPT ![t] = IF r.raised THEN {} ELSE r.docs]
         /\ pc' = [pc EXCEPT ![t] = IF r.raised THEN Raised(t) ELSE "discard"]
         /\ outcome' = [outcome EXCEPT ![t] = IF r.raised THEN "fail_gen" ELSE @]
         /\ app' = IF r.raised /\ t = "lifespan" THEN "crashed" ELSE app
    /\ matched' = [matched EXCEPT ![t] = "none"]
    /\ UNCHANGED <<call, hasKey, vectorstore, llm, disk, ingest_lock, ingest_running,
                   executor, busyAtArrival, nevents, started, qpc, seen>>

\* lines 335-337: if CHROMA_DIR.exists(): shutil.rmtree(CHROMA_DIR)
ingest_discard(t) ==
    /\ pc[t] = "discard"
    /\ disk' = IF disk.exists THEN rmtree(disk) ELSE disk
    /\ pc' = [pc EXCEPT ![t] = "embed"]
    /\ UNCHANGED <<call, hasKey, app, vectorstore, llm, ingest_lock, ingest_running,
                   executor, passIdx, all_docs, outcome, busyAtArrival,
                   matched, nevents, started, qpc, seen>>

\* lines 339-340: HuggingFaceEmbeddings(model_name=...), which may raise
ingest_embed(t) ==
    /\ pc[t] = "embed"
    /\ \E ok \in BOOLEAN :
         /\ pc' = [pc EXCEPT ![t] = IF ok THEN "write" ELSE Raised(t)]
         /\ outcome' = [outcome EXCEPT ![t] = IF ok THEN @ ELSE "fail_store"]
         /\ app' = IF ~ok /\ t = "lifespan" THEN "crashed" ELSE app
         /\ all_docs' = [all_docs EXCEPT ![t] = IF ok THEN @ ELSE {}]
    /\ UNCHANGED <<call, hasKey, vectorstore, llm, disk, ingest_lock,
                   ingest_running, executor, passIdx, busyAtArrival,
                   matched, nevents, started, qpc, seen>>

\* lines 342-351: Chroma.from_documents(all_docs, ...), as one bulk write that
\* either happens or raises, and the return
ingest_write(t) ==
    /\ pc[t] = "write"
    /\ \E ok \in BOOLEAN :
         /\ disk' = IF ok THEN from_documents(disk, all_docs[t]) ELSE disk
         /\ pc' = [pc EXCEPT ![t] = IF ok THEN Returned(t) ELSE Raised(t)]
         /\ outcome' = [outcome EXCEPT ![t] = IF ok THEN @ ELSE "fail_store"]
         /\ app' = IF t = "lifespan" THEN (IF ok THEN "open" ELSE "crashed") ELSE app
         /\ all_docs' = [all_docs EXCEPT ![t] = IF ok THEN @ ELSE {}]
    /\ UNCHANGED <<call, hasKey, vectorstore, llm, ingest_lock, ingest_running,
                   executor, passIdx, busyAtArrival, matched, nevents,
                   started, qpc, seen>>

(* ---------------- _run_ingest, main.py 75-91 ---------------- *)

\* line 78-80: the non-blocking acquire; without the lock, print and return
run_ingest_acquire(t) ==
    /\ pc[t] = "start"
    /\ IF acquire(ingest_lock)
       THEN /\ ingest_lock' = t
            /\ pc' = [pc EXCEPT ![t] = "acquired"]
            /\ outcome' = [outcome EXCEPT ![t] = "none"]
            /\ UNCHANGED busyAtArrival
       ELSE /\ pc' = [pc EXCEPT ![t] = "returned"]
            /\ outcome' = [outcome EXCEPT ![t] = "skipped"]
            /\ busyAtArrival' = [busyAtArrival EXCEPT ![t] = FALSE]
            /\ UNCHANGED ingest_lock
    /\ UNCHANGED <<call, hasKey, app, vectorstore, llm, disk, ingest_running,
                   executor, passIdx, all_docs, matched, nevents,
                   started, qpc, seen>>

\* lines 81-84: _ingest_running = True, then the call of ingest()
run_ingest_set_flag(t) ==
    /\ pc[t] = "acquired"
    /\ ingest_running' = TRUE
    /\ pc' = [pc EXCEPT ![t] = "load"]
    /\ begin_ingest(t)
    /\ UNCHANGED <<call, hasKey, app, vectorstore, llm, disk, ingest_lock, executor,
                   outcome, busyAtArrival, nevents, started, qpc, seen>>

\* lines 64-72 and 85-86: _reload_vectorstore() after ingest() returned
reload_vectorstore(t) ==
    /\ pc[t] = "reload"
    /\ vectorstore' = Chroma(disk)
    /\ disk' = ChromaDisk(disk)
    /\ pc' = [pc EXCEPT ![t] = "finally"]
    /\ outcome' = [outcome EXCEPT ![t] = "ok"]
    /\ UNCHANGED <<call, hasKey, app, llm, ingest_lock, ingest_running, executor,
                   passIdx, all_docs, busyAtArrival, matched, nevents,
                   started, qpc, seen>>

\* a finally that leaves _ingest_running as it is
run_ingest_keep_flag(t) ==
    /\ pc[t] = "finally"
    /\ pc' = [pc EXCEPT ![t] = "release"]
    /\ UNCHANGED <<call, hasKey, app, vectorstore, llm, disk, ingest_lock,
                   ingest_running, executor, passIdx, all_docs, outcome,
                   busyAtArrival, matched, nevents, started, qpc, seen>>

\* line 90: finally: _ingest_running = False
run_ingest_clear_flag(t) ==
    /\ pc[t] = "finally"
    /\ ingest_running' = FALSE
    /\ pc' = [pc EXCEPT ![t] = "release"]
    /\ UNCHANGED <<call, hasKey, app, vectorstore, llm, disk, ingest_lock, executor,
                   passIdx, all_docs, outcome, busyAtArrival, matched,
                   nevents, started, qpc, seen>>

\* line 91: _ingest_lock.release(), and the return
run_ingest_release(t) ==
    /\ pc[t] = "release"
    /\ ingest_lock' = Free
    /\ pc' = [pc EXCEPT ![t] = "returned"]
    /\ passIdx' = [passIdx EXCEPT ![t] = 1]
    /\ all_docs' = [all_docs EXCEPT ![t] = {}]
    /\ matched' = [matched EXCEPT ![t] = "none"]
    /\ outcome' = [outcome EXCEPT ![t] = "ran"]
    /\ busyAtArrival' = [busyAtArrival EXCEPT ![t] = FALSE]
    /\ UNCHANGED <<call, hasKey, app, vectorstore, llm, disk, ingest_running,
                   executor, nevents, started, qpc, seen>>

(* ---------------- the executor and the file watcher ---------------- *)

\* DocsChangeHandler._handle, lines 101-104: an event of the observer thread;
\* only a file event on an .xlsx path submits _run_ingest to the executor
DocsChangeHandler_handle ==
    /\ app = "serving"
    /\ nevents < MaxEvents
    /\ \E is_directory \in BOOLEAN, xlsx \in BOOLEAN :
         IF ~is_directory /\ xlsx
         THEN /\ executor' = Append(executor, [busy |-> ingest_running])
              /\ nevents' = nevents + 1
         ELSE UNCHANGED <<executor, nevents>>
    /\ UNCHANGED <<call, hasKey, app, vectorstore, llm, disk, ingest_lock,
                   ingest_running, pc, passIdx, all_docs, outcome,
                   busyAtArrival, matched, started, qpc, seen>>

\* ThreadPoolExecutor(max_workers=1), line 57: the one worker takes the next
\* submitted task when it has returned from the previous one
worker_take ==
    /\ pc["worker"] \in {"idle", "returned"}
    /\ executor # <<>>
    /\ executor' = Tail(executor)
    /\ pc' = [pc EXCEPT !["worker"] = "start"]
    /\ busyAtArrival' = [busyAtArrival EXCEPT !["worker"] = Head(executor).busy]
    /\ outcome' = [outcome EXCEPT !["worker"] = "none"]
    /\ UNCHANGED <<call, hasKey, app, vectorstore, llm, disk, ingest_lock,
                   ingest_running, passIdx, all_docs, matched,
                   nevents, started, qpc, seen>>

(* ---------------- lifespan, main.py 117-154 ---------------- *)

\* a startup that runs the initial ingest() whether or not CHROMA_DIR exists
lifespan_start_always ==
    /\ app = "boot"
    /\ IF ~hasKey
       THEN /\ app' = "crashed"
            /\ UNCHANGED threadVars
       ELSE /\ app' = "ingest"
            /\ pc' = [pc EXCEPT !["lifespan"] = "load"]
            /\ begin_ingest("lifespan")
            /\ UNCHANGED <<outcome, busyAtArrival>>
    /\ UNCHANGED <<call, hasKey, vectorstore, llm, disk, ingest_lock,
                   ingest_running, executor, nevents, started, qpc,
                   seen>>

\* lines 121-130: the key check, the embedding model, and the initial
\* ingest() when CHROMA_DIR does not exist (ingest() checks the same key)
lifespan_start ==
    /\ app = "boot"
    /\ IF ~hasKey
       THEN /\ app' = "crashed"
            /\ UNCHANGED threadVars
       ELSE IF ~disk.exists
       THEN /\ app' = "ingest"
            /\ pc' = [pc EXCEPT !["lifespan"] = "load"]
            /\ begin_ingest("lifespan")
            /\ UNCHANGED <<outcome, busyAtArrival>>
       ELSE /\ app' = "open"
            /\ UNCHANGED threadVars
    /\ UNCHANGED <<call, hasKey, vectorstore, llm, disk, ingest_lock,
                   ingest_running, executor, nevents, started, qpc,
                   seen>>

\* lines 132-149: open the Index, create the llm, start the observer, yield
lifespan_open ==
    /\ app = "open"
    /\ vectorstore' = Chroma(disk)
    /\ disk' = ChromaDisk(disk)
    /\ llm' = TRUE
    /\ app' = "serving"
    /\ pc' = [pc EXCEPT !["lifespan"] = "idle"]
    /\ passIdx' = [passIdx EXCEPT !["lifespan"] = 1]
    /\ all_docs' = [all_docs EXCEPT !["lifespan"] = {}]
    /\ matched' = [matched EXCEPT !["lifespan"] = "none"]
    /\ UNCHANGED <<call, hasKey, ingest_lock, ingest_running, executor, outcome,
                   busyAtArrival, nevents, started, qpc, seen>>

\* lines 151-154: shutdown stops the observer and drops the references
lifespan_shutdown ==
    /\ app = "serving"
    /\ LoopFree
    /\ vectorstore' = NoStore
    /\ llm' = FALSE
    /\ app' = "stopped"
    /\ UNCHANGED <<call, hasKey, disk, ingest_lock, ingest_running, executor,
                   threadVars, nevents, started, qpc, seen>>

(* ---------------- endpoints, main.py 220-316 ---------------- *)

\* what a read through handle h returns: the collection the handle was opened
\* on, while that is still the one on disk; after a rmtree the handle points
\* at removed files, and the read returns either what the client still holds
\* of the old collection or the discarded state (an error, or nothing)
Read(h) ==
    IF disk.exists /\ disk.gen = h
    THEN IF \E g \in 0..disk.gen : disk.docs # {} /\ disk.docs \subseteq {g} \X Passes
         THEN {"complete"} ELSE {"mixed"}
    ELSE {"complete", "torn"}

\* a /health that reopens the Index before it counts
health_reopening ==
    /\ app = "serving"
    /\ LoopFree
    /\ vectorstore' = Chroma(disk)
    /\ \E r \in Read(Chroma(disk)) : seen' = r
    /\ UNCHANGED <<call, hasKey, app, llm, disk, ingest_lock,
                   ingest_running, executor, threadVars, nevents, started, qpc>>

\* GET /health, lines 220-229: counts the collection when vectorstore is set
health ==
    /\ app = "serving"
    /\ LoopFree
    /\ IF vectorstore # NoStore
       THEN \E r \in Read(vectorstore) : seen' = r
       ELSE UNCHANGED seen
    /\ UNCHANGED <<call, hasKey, app, vectorstore, llm, disk, ingest_lock,
                   ingest_running, executor, threadVars, nevents, started, qpc>>

\* POST /ingest, lines 232-241: 409 when the flag is set, else the background
\* task _run_ingest is added (it runs on a pool thread after the response)
\* and the answer is "started"
trigger_ingest ==
    /\ app = "serving"
    /\ LoopFree
    /\ Cardinality(started) < MaxPosts
    /\ IF ingest_running
       THEN UNCHANGED <<pc, busyAtArrival, started>>
       ELSE LET t == "bg" \o ToString(Cardinality(started) + 1) IN
            /\ started' = started \cup {t}
            /\ pc' = [pc EXCEPT ![t] = "start"]
            /\ busyAtArrival' = [busyAtArrival EXCEPT ![t] = ingest_running]
    /\ UNCHANGED <<call, hasKey, app, vectorstore, llm, disk, ingest_lock,
                   ingest_running, executor, passIdx, all_docs, outcome,
                   matched, nevents, qpc, seen>>

\* POST /query, lines 254-279: 503 when not ready or when the flag is set,
\* else the filter is built and the search is next
query_check ==
    /\ app = "serving"
    /\ LoopFree
    /\ qpc' = IF vectorstore = NoStore \/ ~llm \/ ingest_running THEN "idle" ELSE "search"
    /\ UNCHANGED <<call, hasKey, app, vectorstore, llm, disk, ingest_lock,
                   ingest_running, executor, threadVars, nevents, started, seen>>

\* POST /query, lines 281-297: similarity_search, the answer and the response
query_search ==
    /\ qpc = "search"
    /\ \E r \in Read(vectorstore) : seen' = r
    /\ qpc' = "idle"
    /\ UNCHANGED <<call, hasKey, app, vectorstore, llm, disk, ingest_lock,
                   ingest_running, executor, threadVars, nevents, started>>

\* GET /debug, lines 300-316: 503 without a vectorstore, else count and search
debug ==
    /\ app = "serving"
    /\ LoopFree
    /\ IF vectorstore # NoStore
       THEN \E r \in Read(vectorstore) : seen' = r
       ELSE UNCHANGED seen
    /\ UNCHANGED <<call, hasKey, app, vectorstore, llm, disk, ingest_lock,
                   ingest_running, executor, threadVars, nevents, started, qpc>>

\* the steps of thread t inside _run_ingest
RunStep(t) ==
    \/ run_ingest_acquire(t)
    \/ run_ingest_set_flag(t)
    \/ ingest_load(t)
    \/ ingest_pass(t)
    \/ ingest_discard(t)
    \/ ingest_embed(t)
    \/ ingest_write(t)
    \/ reload_vectorstore(t)
    \/ run_ingest_clear_flag(t)
    \/ run_ingest_release(t)

\* lifespan, the triggers and the ingestion runs
IngestNext ==
    \/ lifespan_start
    \/ lifespan_open
    \/ lifespan_shutdown
    \/ DocsChangeHandler_handle
    \/ worker_take
    \/ trigger_ingest
    \/ ingest_load("lifespan")
    \/ ingest_pass("lifespan")
    \/ ingest_discard("lifespan")
    \/ ingest_embed("lifespan")
    \/ ingest_write("lifespan")
    \/ \E t \in RunThreads : RunStep(t)

\* the endpoints that read the Index
ReadNext ==
    \/ query_check
    \/ query_search
    \/ debug
    \/ health

Next == IngestNext \/ ReadNext

\* the whole service
Spec == Init /\ [][Next]_vars

\* the service without its read endpoints, which write nothing but qpc and
\* seen: the ingestion side on its own
IngestSpec == Init /\ [][IngestNext]_vars

\* lifespan, the requests and the runs that POST /ingest starts
RequestNext ==
    \/ lifespan_start
    \/ lifespan_open
    \/ lifespan_shutdown
    \/ trigger_ingest
    \/ ingest_load("lifespan")
    \/ ingest_pass("lifespan")
    \/ ingest_discard("lifespan")
    \/ ingest_embed("lifespan")
    \/ ingest_write("lifespan")
    \/ \E t \in BgThreads : RunStep(t)
    \/ ReadNext

\* the service as its requests drive it, no file changing under docs/
RequestSpec == Init /\ [][RequestNext]_vars

\* the next step of the thread that holds the guard
HolderStep == \E t \in RunThreads : ingest_lock = t /\ RunStep(t)

\* the thread that holds the guard keeps running: every call its run makes
\* returns or raises, and the thread is scheduled
LiveSpec == IngestSpec /\ WF_vars(HolderStep)

TypeOK ==
    /\ hasKey \in BOOLEAN
    /\ app \in {"boot", "ingest", "open", "serving", "stopped", "crashed"}
    /\ vectorstore \in {NoStore} \cup Nat
    /\ llm \in BOOLEAN
    /\ disk.exists \in BOOLEAN /\ disk.gen \in Nat /\ disk.docs \subseteq Nat \X Passes
    /\ ingest_lock \in {Free} \cup RunThreads
    /\ ingest_running \in BOOLEAN
    /\ \A i \in 1..Len(executor) : executor[i].busy \in BOOLEAN
    /\ pc \in [Threads -> {"idle", "start", "acquired", "load", "gen", "discard",
                            "embed", "write", "reload", "finally", "release",
                            "returned", "open", "crashed"}]
    /\ passIdx \in [Threads -> 1..NumPasses + 1]
    /\ all_docs \in [Threads -> SUBSET Passes]
    /\ outcome \in [Threads -> {"none", "ok", "ran", "skipped", "fail_load",
                                 "fail_gen", "fail_store"}]
    /\ busyAtArrival \in [Threads -> BOOLEAN]
    /\ matched \in [Threads -> {"none", "zero", "multi", "exact"}]
    /\ nevents \in 0..MaxEvents
    /\ started \subseteq BgThreads
    /\ qpc \in {"idle", "search"}
    /\ seen \in {"none", "complete", "mixed", "torn"}

(* ---------------- the pure functions, on their own ---------------- *)

\* a string is the sequence of its characters; the strings of the inputs
Strs == {<<>>, <<" ">>, <<"x">>, <<"y">>, <<" ", "x", " ">>}

\* a strip that returns its argument
strip_none(s) == s

RECURSIVE lstrip(_)
lstrip(s) == IF s # <<>> /\ Head(s) = " " THEN lstrip(Tail(s)) ELSE s

RECURSIVE rstrip(_)
rstrip(s) ==
    IF s # <<>> /\ s[Len(s)] = " " THEN rstrip(SubSeq(s, 1, Len(s) - 1)) ELSE s

\* str.strip(): without the leading and the trailing whitespace
strip(s) == rstrip(lstrip(s))

\* a pair of the model's answer: a dict with some of the keys question, answer
Pairs == UNION {[K -> Strs] : K \in SUBSET {"question", "answer"}}

\* pair.get(key, "")
get(pair, key) == IF key \in DOMAIN pair THEN pair[key] ELSE <<>>

\* Document(page_content=f"Q: {q}\nA: {a}", metadata={**metadata, "question": q})
Document(q, a, metadata) ==
    [page_content |-> <<"Q", ":", " ">> \o q \o <<"\n", "A", ":", " ">> \o a,
     metadata |-> [k \in DOMAIN metadata \cup {"question"} |->
                      IF k = "question" THEN q ELSE metadata[k]]]

\* a packaging that keeps every pair
RECURSIVE pairs_to_documents_unfiltered(_, _)
pairs_to_documents_unfiltered(pairs, metadata) ==
    IF pairs = <<>> THEN <<>>
    ELSE <<Document(strip(get(Head(pairs), "question")),
                    strip(get(Head(pairs), "answer")), metadata)>>
             \o pairs_to_documents_unfiltered(Tail(pairs), metadata)

\* ingest.py 120-130
RECURSIVE pairs_to_documents(_, _)
pairs_to_documents(pairs, metadata) ==
    IF pairs = <<>> THEN <<>>
    ELSE LET q == strip(get(Head(pairs), "question"))
             a == strip(get(Head(pairs), "answer"))
         IN  (IF q # <<>> /\ a # <<>> THEN <<Document(q, a, metadata)>> ELSE <<>>)
                 \o pairs_to_documents(Tail(pairs), metadata)

\* the file name that load(...) returned for dataset i
Filename(i) == "file" \o ToString(i)

\* the metadata of the documents of pass i: ingest.py 164-166, 199-201,
\* 224-226 with the arguments of 319-324, and 278-282
PassMeta(i) ==
    IF i = NumPasses
    THEN [source |-> "cross_release", doc_type |-> "comparison", release |-> "all"]
    ELSE [source |-> Filename(i),
          doc_type |-> CASE i % 3 = 1 -> "defect"
                         [] i % 3 = 2 -> "test_execution"
                         [] OTHER -> "metadata",
          release |-> IF i <= 3 THEN "ReleaseA" ELSE "ReleaseB"]

\* the lists of at most n elements of S
SeqsUpTo(S, n) == UNION {[1..k -> S] : k \in 0..n}

\* a call of pairs_to_documents is about to be made
PackagerInit ==
    \E ps \in SeqsUpTo(Pairs, MaxPairs), i \in {1, NumPasses} :
        call = [fn |-> "pairs_to_documents",
                arg |-> [pairs |-> ps, metadata |-> PassMeta(i)],
                ret |-> <<>>, done |-> FALSE]

pairs_to_documents_call ==
    /\ call.fn = "pairs_to_documents" /\ ~call.done
    /\ call' = [call EXCEPT !.ret = pairs_to_documents(call.arg.pairs, call.arg.metadata),
                             !.done = TRUE]
    /\ UNCHANGED serviceVars

\* qa_for_defects / qa_for_tests / qa_for_metadata / qa_cross_release once
\* _call_llm has returned pairs: the documents of pass i
qa_docs(i, pairs) == pairs_to_documents(pairs, PassMeta(i))

\* an accumulation that puts the documents of each pass before the earlier ones
RECURSIVE accumulate_prepend(_, _, _)
accumulate_prepend(i, acc, resps) ==
    IF i > NumPasses THEN acc
    ELSE accumulate_prepend(i + 1, qa_docs(i, resps[i]) \o acc, resps)

\* ingest.py 315-330: all_docs = [], then all_docs += the documents of the
\* passes i..NumPasses in order; resps[i] are the pairs _call_llm returns
RECURSIVE accumulate(_, _, _)
accumulate(i, acc, resps) ==
    IF i > NumPasses THEN acc
    ELSE accumulate(i + 1, acc \o qa_docs(i, resps[i]), resps)

\* the j-th pair of the answer to pass i, and an answer of n such pairs
QA(i, j) == [question |-> <<"q", ToString(i), ToString(j)>>,
             answer |-> <<"a", ToString(i), ToString(j), " ">>]
PairsOfPass(i, n) == [j \in 1..n |-> QA(i, j)]

\* a pair with a blank question
BlankPair == [question |-> <<" ">>, answer |-> <<"y">>]

\* the answers to the seven calls of one run: n pairs to each per-file call
\* and c to the comparison, but for one pass d (if any) that gets a blank
\* pair and m others
RunPairs ==
    {[i \in Passes |-> IF i = d THEN <<BlankPair>> \o PairsOfPass(i, m)
                       ELSE IF i = NumPasses THEN PairsOfPass(i, c)
                       ELSE PairsOfPass(i, n)] :
        n \in 0..MaxPerPass, c \in 0..MaxPerPass, m \in 0..MaxPerPass,
        d \in 0..NumPasses}

\* the generation passes of a run of ingest() are about to be made
IngestInit ==
    \E resps \in RunPairs :
        call = [fn |-> "ingest", arg |-> resps, ret |-> <<>>, done |-> FALSE]

\* ingest.py 315-348: the list that Chroma.from_documents is given
ingest_documents_call ==
    /\ call.fn = "ingest" /\ ~call.done
    /\ call' = [call EXCEPT !.ret = accumulate(1, <<>>, call.arg), !.done = TRUE]
    /\ UNCHANGED serviceVars

\* an optional value of a request: None, or a string
None == <<>>
Some(v) == <<v>>

\* a normalisation that lets the placeholder through
not_placeholder_unchecked(v) == v

\* main.py 261-262: v if v not in (None, "string") else None
not_placeholder(v) == IF v = None \/ v = Some("string") THEN None ELSE v

\* truth value of an optional string: None and "" are false
truthy(v) == v # None /\ v[1] # ""

\* main.py 264-268: the list of the conditions
filters(release, doc_type) ==
    (IF truthy(release) THEN <<("release" :> release[1])>> ELSE <<>>)
        \o (IF truthy(doc_type) THEN <<("doc_type" :> doc_type[1])>> ELSE <<>>)

\* main.py 270-275: where
where(fs) ==
    IF Len(fs) = 2 THEN Some("$and" :> fs)
    ELSE IF Len(fs) = 1 THEN Some(fs[1])
    ELSE None

\* main.py 260-279: the keyword arguments of the search for a request
search_kwargs(request) ==
    LET release == not_placeholder(request.release)
        doc_type == not_placeholder(request.doc_type)
        w == where(filters(release, doc_type))
    IN  IF w # None THEN [k |-> request.k, filter |-> w[1]] ELSE [k |-> request.k]

\* requests: each filter field absent, the placeholder, empty, or a value
QueryRequests ==
    [release : {None, Some("string"), Some(""), Some("ReleaseA"), Some("ReleaseB")},
     doc_type : {None, Some("string"), Some(""), Some("defect"), Some("comparison")},
     k : {3, 8}]

\* the filter of a request is about to be built
FilterInit ==
    \E r \in QueryRequests :
        call = [fn |-> "query_filter", arg |-> r, ret |-> <<>>, done |-> FALSE,
                again |-> <<>>, repeated |-> FALSE]

\* the filter of a request is built, and built once more for the same request
query_filter_call ==
    /\ call.fn = "query_filter" /\ ~call.repeated
    /\ call' = IF ~call.done
               THEN [call EXCEPT !.ret = search_kwargs(call.arg), !.done = TRUE]
               ELSE [call EXCEPT !.again = search_kwargs(call.arg), !.repeated = TRUE]
    /\ UNCHANGED serviceVars

\* the separator of the context, and the text that stands for no document
Separator == <<"\n", "\n", "-", "-", "-", "\n", "\n">>
NoDocuments == <<"No relevant documents were found.">>

\* "\n\n---\n\n".join(...)
RECURSIVE join(_, _)
join(sep, strs) ==
    IF strs = <<>> THEN <<>>
    ELSE IF Len(strs) = 1 THEN strs[1]
    ELSE strs[1] \o sep \o join(sep, Tail(strs))

\* main.py 283-286
context(docs) ==
    IF docs # <<>> THEN join(Separator, [i \in 1..Len(docs) |-> docs[i].page_content])
    ELSE NoDocuments

\* sources taken from the retrieved documents last to first
sources_reversed(docs) ==
    [i \in 1..Len(docs) |-> [content |-> docs[Len(docs) + 1 - i].page_content,
                             metadata |-> docs[Len(docs) + 1 - i].metadata]]

\* main.py 293-296: SourceDocument(content=doc.page_content, metadata=doc.metadata)
sources(docs) ==
    [i \in 1..Len(docs) |-> [content |-> docs[i].page_content,
                             metadata |-> docs[i].metadata]]

\* main.py 283-297: the context, the answer of the chain (which may raise)
\* and the response
query_response(docs, chain_ok) ==
    IF chain_ok
    THEN [answered |-> TRUE, context |-> context(docs), sources |-> sources(docs)]
    ELSE [answered |-> FALSE, context |-> context(docs), sources |-> <<>>]

\* documents that a search can return
Retrievable ==
    {Document(<<"x">>, <<"y">>, PassMeta(1)),
     Document(<<"y">>, <<"x", "x">>, PassMeta(5)),
     Document(<<"x">>, <<"x">>, PassMeta(NumPasses))}

\* the response to a search is about to be built
ResponseInit ==
    \E ds \in SeqsUpTo(Retrievable, MaxRetrieved), ok \in BOOLEAN :
        call = [fn |-> "query_response", arg |-> [docs |-> ds, chain_ok |-> ok],
                ret |-> <<>>, done |-> FALSE]

query_response_call ==
    /\ call.fn = "query_response" /\ ~call.done
    /\ call' = [call EXCEPT !.ret = query_response(call.arg.docs, call.arg.chain_ok),
                             !.done = TRUE]
    /\ UNCHANGED serviceVars

\* the text of a response, as the sequence of its pieces: a bracket, a
\* blank, a {question, answer} object (with the comma that goes with it),
\* or prose
Pieces == {"[", "]", " ", "P", "t"}

\* str.find / str.rfind, counted from 0, -1 when the piece is not there
RECURSIVE find(_, _, _)
find(s, c, i) == IF i > Len(s) THEN -1 ELSE IF s[i] = c THEN i - 1 ELSE find(s, c, i + 1)

RECURSIVE rfind(_, _, _)
rfind(s, c, i) == IF i < 1 THEN -1 ELSE IF s[i] = c THEN i - 1 ELSE rfind(s, c, i - 1)

\* the slice s[start:end]: a negative index counts from the end, an index
\* past an end is that end, and the slice is empty when end <= start
slice(s, start, end) ==
    LET clip(k) == IF k < 0 THEN (IF Len(s) + k < 0 THEN 0 ELSE Len(s) + k)
                   ELSE IF k > Len(s) THEN Len(s) ELSE k
    IN  IF clip(end) <= clip(start) THEN <<>> ELSE SubSeq(s, clip(start) + 1, clip(end))

\* json.loads(text): the text is one JSON value, an object or an array of
\* values, with blanks anywhere; anything else raises. elems are the
\* elements of the outermost array
RECURSIVE json_scan(_, _, _, _, _)
json_scan(s, i, depth, kind, elems) ==
    IF i > Len(s)
    THEN IF depth = 0 /\ kind # "none"
         THEN [raised |-> FALSE, kind |-> kind, value |-> elems]
         ELSE [raised |-> TRUE, kind |-> "none", value |-> <<>>]
    ELSE IF s[i] = " " THEN json_scan(s, i + 1, depth, kind, elems)
    ELSE IF s[i] = "t" \/ (depth = 0 /\ kind # "none") \/ (depth = 0 /\ s[i] = "]")
         THEN [raised |-> TRUE, kind |-> "none", value |-> <<>>]
    ELSE IF s[i] = "["
         THEN json_scan(s, i + 1, depth + 1, IF depth = 0 THEN "list" ELSE kind,
                        IF depth = 1 THEN Append(elems, "list") ELSE elems)
    ELSE IF s[i] = "]" THEN json_scan(s, i + 1, depth - 1, kind, elems)
    ELSE json_scan(s, i + 1, depth, IF depth = 0 THEN "dict" ELSE kind,
                   IF depth = 1 THEN Append(elems, "pair") ELSE elems)

json_loads(text) == json_scan(text, 1, 0, "none", <<>>)

\* a test that only looks for the opening bracket
no_array_start_only(start, end) == start = -1

\* ingest.py 114: if start == -1 or end == 0
no_array(start, end) == start = -1 \/ end = 0

\* ingest.py 101-117: _call_llm on a completion that raises or returns content
CallLLM(api_ok, content) ==
    IF ~api_ok THEN [raised |-> TRUE, kind |-> "none", value |-> <<>>]
    ELSE LET raw == strip(content)
             start == find(raw, "[", 1)
             end == rfind(raw, "]", Len(raw)) + 1
         IN  IF no_array(start, end)
             THEN [raised |-> FALSE, kind |-> "list", value |-> <<>>]
             ELSE json_loads(slice(raw, start, end))

\* the response as the passes of a run see it
AsResponse(api_ok, content) ==
    [api |-> api_ok,
     lbracket |-> \E i \in 1..Len(content) : content[i] = "[",
     rbracket |-> \E i \in 1..Len(content) : content[i] = "]",
     json |-> ~json_loads(slice(strip(content), find(strip(content), "[", 1),
                                rfind(strip(content), "]", Len(strip(content))) + 1)).raised,
     pairs |-> IF \E i \in 1..Len(content) : content[i] = "P" THEN 1 ELSE 0]

\* a call of _call_llm is about to be made
GeneratorInit ==
    \E ok \in BOOLEAN, c \in SeqsUpTo(Pieces, MaxRaw) :
        call = [fn |-> "_call_llm", arg |-> [api_ok |-> ok, content |-> c],
                ret |-> <<>>, done |-> FALSE]

call_llm_call ==
    /\ call.fn = "_call_llm" /\ ~call.done
    /\ call' = [call EXCEPT !.ret = CallLLM(call.arg.api_ok, call.arg.content),
                             !.done = TRUE]
    /\ UNCHANGED serviceVars

\* one of the functions is about to be called, the service not yet started
FnInit ==
    /\ PackagerInit \/ IngestInit \/ FilterInit \/ ResponseInit \/ GeneratorInit
    /\ Boot /\ hasKey /\ disk = Absent

FnNext ==
    \/ pairs_to_documents_call
    \/ ingest_documents_call
    \/ query_filter_call
    \/ query_response_call
    \/ call_llm_call

\* the functions called on their own, on each of their inputs
FnSpec == FnInit /\ [][FnNext]_vars

(* ======================= the claims ======================= *)

\* C1: at most one execution of ingest() is in progress in any reachable
\* state, whatever the interleaving of the startup ingestion, the POST /ingest
\* background tasks and the tasks the watcher submitted.
C1_AtMostOneIngestion == Cardinality({t \in Threads : InIngest(t)}) <= 1

\* a trigger found the lock taken and returned while the run that holds it
\* is inside ingest()
C1_Witness ==
    \E t \in RunThreads, u \in RunThreads :
        t # u /\ InIngest(t) /\ pc[u] = "returned" /\ outcome[u] = "skipped"

\* C2: the similarity search of /query never overlaps an ingestion run: while
\* the handler is between its busy check and its search, no thread is inside
\* ingest().
C2_NoSearchDuringIngestion == qpc = "search" => \A t \in Threads : ~InIngest(t)

\* C3: no read of the Index by /query, /debug or /health returns the
\* discarded-but-not-yet-rewritten state.
C3_NoTornRead == seen # "torn"


\* the run of t has not reached the discard of the old Index
BeforeDiscard(t) == pc[t] \in {"load", "gen"}

\* the run of t ended in an exception of the loading or of a generation call
FailedEarly(t) ==
    /\ outcome[t] \in {"fail_load", "fail_gen"}
    /\ pc[t] \in {"finally", "release", "crashed"}

\* the step is the shutdown of lifespan
IsShutdown == app = "serving" /\ app' = "stopped"

\* C4: a failure of the loading or of a generation call never destroys a
\* working Index: from the entry of ingest() up to the discard, and through
\* the whole handling of an exception raised before it, no step changes the
\* persisted Index, and none but a shutdown changes the reference of the
\* query path.
C4_EarlyFailureKeepsIndex ==
    [][(\E t \in Threads : BeforeDiscard(t) \/ FailedEarly(t))
          => /\ disk' = disk
             /\ (vectorstore' = vectorstore \/ IsShutdown)]_vars

\* a run failed in a generation call while a working Index was being served,
\* and the Index and a reference to it are still there
C4_Witness ==
    \E t \in RunThreads :
        /\ pc[t] = "release" /\ outcome[t] = "fail_gen"
        /\ disk.exists /\ disk.docs # {} /\ vectorstore = disk.gen

\* C5: a trigger that arrives while an ingestion is recorded as running is
\* dropped and never starts an ingestion run later: no thread whose trigger
\* arrived then ever gets the lock.
C5_BusyTriggerNeverRuns == \A t \in RunThreads : busyAtArrival[t] => ~InRun(t)

\* C6: every POST /ingest that was answered "started" runs an ingestion: its
\* background task is never skipped by the lock.
C6_StartedNeverSkipped == \A t \in started : outcome[t] # "skipped"

\* C7: a generation call that fails never ends the run: no ingest() is left
\* through an exception of one of its seven passes.
C7_PassFailureKeepsRun == \A t \in Threads : outcome[t] # "fail_gen"

Stored(g, docs) == {g} \X docs

\* C9: full replace. Every write of the persisted Index leaves in it exactly
\* the documents of the writing run; when ingest() has returned the Index is
\* exactly that run's documents; and after the reload the reference of the
\* query path is one on that Index, through which a read returns it whole.
C9_FullReplace ==
    /\ [](\A t \in Threads : pc[t] = Returned(t) =>
            disk.exists /\ disk.docs = Stored(disk.gen, all_docs[t]))
    /\ [](\A t \in RunThreads : (pc[t] = "finally" /\ outcome[t] = "ok") =>
            /\ disk.exists /\ disk.docs = Stored(disk.gen, all_docs[t])
            /\ vectorstore # NoStore =>
                  (vectorstore = disk.gen /\ Read(vectorstore) = {"complete"}))
    /\ [][disk'.docs # disk.docs =>
            \/ disk'.docs = {}
            \/ \E t \in Threads : pc[t] = "write"
                  /\ disk'.docs = Stored(disk'.gen, all_docs[t])]_vars

\* a successful run without the documents of one pass replaced an Index
\* that an earlier run had written
C9_Witness ==
    \E t \in RunThreads :
        /\ pc[t] = "finally" /\ outcome[t] = "ok"
        /\ disk.gen >= 2 /\ all_docs[t] # Passes /\ vectorstore = disk.gen

\* C10: a run that holds the guard eventually releases it (the guard only
\* changes hands through being free), and the flag is clear whenever the
\* guard is free; the reload happens with the flag still
\* set and leaves the query path a reference to the rebuilt Index; and no
\* step of a run but the reload of a successful one changes that reference.
C10_GuardReleased ==
    /\ (ingest_lock # Free) ~> (ingest_lock = Free)
    /\ [](ingest_lock = Free => ~ingest_running)
    /\ [](\A t \in RunThreads : pc[t] = "reload" => ingest_running)
    /\ [](\A t \in RunThreads : (pc[t] = "finally" /\ outcome[t] = "ok") =>
            /\ ingest_running
            /\ vectorstore # NoStore => vectorstore = disk.gen)
    /\ [][vectorstore' # vectorstore =>
            \/ app' # app
            \/ \E t \in RunThreads : pc[t] = "reload" /\ outcome'[t] = "ok"]_vars

\* a failed run has cleared the flag and is about to release the guard, with
\* the reference that an earlier successful run left
C10_Witness ==
    \E t \in RunThreads :
        /\ pc[t] = "release" /\ outcome[t] = "fail_store"
        /\ ingest_lock = t /\ ~ingest_running
        /\ vectorstore # NoStore /\ disk.gen >= 1

\* C11: all ingestion work, whatever its trigger, is dispatched onto the one
\* worker of the executor: no thread but that worker is ever inside
\* _run_ingest with the guard.
C11_AllRunsOnWorker == \A t \in RunThreads : InRun(t) => t = "worker"

\* startup has not reached the point where the observer is started and
\* requests are accepted
Starting == app \in {"boot", "ingest", "open"}

\* C12: startup runs ingest() synchronously exactly when no persisted Index
\* exists (and the key is set, without which startup ends at once), and
\* opens an existing Index without ingesting; while startup is under way,
\* the ingestion included, no trigger has been taken: nothing is submitted
\* to the executor, no POST /ingest has been answered and no thread is in
\* _run_ingest; and lifespan is inside ingest() only during startup.
C12_StartupIngestion ==
    /\ [][app = "boot" /\ app' # "boot" =>
            /\ app' = "ingest" <=> (hasKey /\ ~disk.exists)
            /\ app' = "open" <=> (hasKey /\ disk.exists)]_vars
    /\ [](Starting =>
            /\ executor = <<>> /\ nevents = 0 /\ started = {}
            /\ \A t \in RunThreads : pc[t] = "idle"
            /\ ingest_lock = Free /\ ~ingest_running
            /\ vectorstore = NoStore)
    /\ [](InIngest("lifespan") <=> app = "ingest")
    /\ [][app # "serving" /\ app' = "serving" =>
            app = "open" /\ disk.exists /\ disk.docs # {}]_vars

\* the startup ingestion is at its bulk write, the old Index being absent
C12_Witness ==
    /\ app = "ingest" /\ pc["lifespan"] = "write" /\ ~disk.exists
    /\ all_docs["lifespan"] # {}

\* the pair has a question and an answer with something but whitespace in it
Usable(pair) ==
    /\ DOMAIN pair = {"question", "answer"}
    /\ \E i \in 1..Len(pair.question) : pair.question[i] # " "
    /\ \E i \in 1..Len(pair.answer) : pair.answer[i] # " "

Packaged(resps, i) == SelectSeq(resps[i], Usable)

\* the number of documents of the passes before pass i
RECURSIVE Before(_, _)
Before(resps, i) == IF i <= 1 THEN 0 ELSE Before(resps, i - 1) + Len(Packaged(resps, i - 1))

\* doc_type and release of the seven passes, in their fixed order
Tags ==
    <<[doc_type |-> "defect", release |-> "ReleaseA"],
      [doc_type |-> "test_execution", release |-> "ReleaseA"],
      [doc_type |-> "metadata", release |-> "ReleaseA"],
      [doc_type |-> "defect", release |-> "ReleaseB"],
      [doc_type |-> "test_execution", release |-> "ReleaseB"],
      [doc_type |-> "metadata", release |-> "ReleaseB"],
      [doc_type |-> "comparison", release |-> "all"]>>

\* the number of documents of a list with the given doc_type
CountType(docs, dt) == Cardinality({k \in 1..Len(docs) : docs[k].metadata.doc_type = dt})

AnswerOf(d) == SubSeq(d.page_content, Len(d.metadata.question) + 8, Len(d.page_content))

\* C16: every document of the Index, that is every document of the list a
\* run writes, carries a doc_type among defect, test_execution, metadata,
\* comparison, a release among ReleaseA, ReleaseB, all, and a question and
\* an answer that are not empty.
C16_DocumentsWellFormed ==
    call.fn = "ingest" /\ call.done =>
        \A k \in 1..Len(call.ret) :
            LET d == call.ret[k] IN
            /\ d.metadata.doc_type \in {"defect", "test_execution", "metadata", "comparison"}
            /\ d.metadata.release \in {"ReleaseA", "ReleaseB", "all"}
            /\ d.metadata.question # <<>>
            /\ AnswerOf(d) # <<>>

\* a run whose answers held a pair with a blank question wrote documents
C16_Witness ==
    /\ call.fn = "ingest" /\ call.done /\ Len(call.ret) > 0
    /\ \E i \in Passes : \E j \in 1..Len(call.arg[i]) : call.arg[i][j] = BlankPair

\* the field of a request is given: it is there, and it is neither the
\* placeholder of an unfilled form nor empty
Given(v) == v # None /\ v # Some("string") /\ v # Some("")

\* C14: the filter of a request is none when neither release nor doc_type is
\* given, the equality condition on the one given when exactly one is, and
\* the $and of the two conditions (release first) when both are; a
\* placeholder ("string") counts as absent; the builder answers for every
\* request, and building twice for the same request gives equal filters.
C14_QueryFilter ==
    /\ [](call.fn = "query_filter" /\ call.done =>
            LET r == call.arg.release
                d == call.arg.doc_type
                has == "filter" \in DOMAIN call.ret
            IN  /\ call.ret.k = call.arg.k
                /\ has <=> (Given(r) \/ Given(d))
                /\ Given(r) /\ ~Given(d) => call.ret.filter = ("release" :> r[1])
                /\ ~Given(r) /\ Given(d) => call.ret.filter = ("doc_type" :> d[1])
                /\ Given(r) /\ Given(d) =>
                      call.ret.filter =
                        ("$and" :> <<("release" :> r[1]), ("doc_type" :> d[1])>>))
    /\ [](call.fn = "query_filter" /\ ~call.repeated => ENABLED query_filter_call)
    /\ [](call.fn = "query_filter" /\ call.repeated => call.again = call.ret)

\* a request with the placeholder as release and a doc_type was given the
\* single condition on doc_type, twice
C14_Witness ==
    /\ call.fn = "query_filter" /\ call.repeated
    /\ call.arg.release = Some("string") /\ call.arg.doc_type = Some("defect")
    /\ call.ret.filter = ("doc_type" :> "defect")

\* where the content of the i-th document starts in the context: after the
\* contents of the documents before it and a separator for each
RECURSIVE Offset(_, _)
Offset(docs, i) ==
    IF i <= 1 THEN 0
    ELSE Offset(docs, i - 1) + Len(docs[i - 1].page_content) + Len(Separator)

\* C17: in the response of an answered /query the sources are the retrieved
\* documents, content and metadata, in the order of the retrieval and
\* nothing else; the context is the contents of those documents in that
\* order with the separator between two of them, or the "no documents"
\* text exactly when nothing was retrieved, the sources being empty then.
C17_SourcesAreRetrieved ==
    call.fn = "query_response" /\ call.done /\ call.ret.answered =>
        LET docs == call.arg.docs
            n == Len(docs)
            ctx == call.ret.context
        IN  /\ Len(call.ret.sources) = n
            /\ \A i \in 1..n :
                  /\ call.ret.sources[i].content = docs[i].page_content
                  /\ call.ret.sources[i].metadata = docs[i].metadata
            /\ ctx = NoDocuments <=> n = 0
            /\ n > 0 =>
                  /\ Len(ctx) = Offset(docs, n) + Len(docs[n].page_content)
                  /\ \A i \in 1..n :
                        SubSeq(ctx, Offset(docs, i) + 1,
                               Offset(docs, i) + Len(docs[i].page_content))
                            = docs[i].page_content
                  /\ \A i \in 2..n :
                        SubSeq(ctx, Offset(docs, i) - Len(Separator) + 1, Offset(docs, i))
                            = Separator

\* a query that retrieved two different documents was answered
C17_Witness ==
    /\ call.fn = "query_response" /\ call.done /\ call.ret.answered
    /\ Len(call.arg.docs) = 2 /\ call.arg.docs[1] # call.arg.docs[2]
    /\ Len(call.ret.sources) = 2

\* the text has no "[" or no "]"
NoBracket(content) ==
    \/ \A i \in 1..Len(content) : content[i] # "["
    \/ \A i \in 1..Len(content) : content[i] # "]"

\* a run whose first generation call gets the response r and whose other
\* calls get good responses
RunWithFirst(r) == passes(1, {}, [i \in Passes |-> IF i = 1 THEN r ELSE GoodResponse])

\* C18: for every response of the model without a "[" or without a "]",
\* _call_llm returns the empty list and does not raise, and the run goes on
\* with the next pass (here: through all the passes); and whenever
\* _call_llm returns, what it returns is a list.
C18_SoftFailure ==
    call.fn = "_call_llm" /\ call.done =>
        /\ call.arg.api_ok /\ NoBracket(call.arg.content) =>
              /\ ~call.ret.raised /\ call.ret.value = <<>>
              /\ ~RunWithFirst(AsResponse(TRUE, call.arg.content)).raised
              /\ RunWithFirst(AsResponse(TRUE, call.arg.content)).next = NumPasses + 1
        /\ ~call.ret.raised => call.ret.kind = "list"
        /\ call.ret.raised
              = call_llm(AsResponse(call.arg.api_ok, call.arg.content)).raised

\* a response with an opening bracket and no closing one gave the empty list
C18_Witness ==
    /\ call.fn = "_call_llm" /\ call.done /\ ~call.ret.raised
    /\ call.arg.content = <<"t", "[", "P">>
    /\ call.ret.value = <<>>

\* /query is admitted: the service is up, the query path holds an Index
\* reference and a model, and no ingestion is recorded as running
QueryAdmitted == app = "serving" /\ vectorstore # NoStore /\ llm /\ ~ingest_running

\* the persisted Index is the whole document set of one completed run
CompleteIndex ==
    /\ disk.exists /\ disk.docs # {}
    /\ \E g \in 0..disk.gen : disk.docs \subseteq {g} \X Passes

\* C19: whenever /query is admitted, the persisted Index is the complete
\* document set of a successfully completed run; a run that fails after the
\* discard does not leave queries admitted on a discarded or empty Index.
C19_AdmittedOnCompleteIndex == QueryAdmitted => CompleteIndex

\* the flag is set in the stretch of _run_ingest from its setting to its reset
FlagStretch(t) ==
    pc[t] \in {"load", "gen", "discard", "embed", "write", "reload", "finally"}

\* C20: _ingest_running is true only while _ingest_lock is held, and held by
\* the run that set the flag: the flag goes up only in a step of the thread
\* that holds the lock, that thread keeps the lock as long as the flag is
\* up, and the lock is only released with the flag down.
C20_FlagOnlyUnderLock ==
    /\ [](ingest_running => \E t \in RunThreads : ingest_lock = t /\ FlagStretch(t))
    /\ [][~ingest_running /\ ingest_running' =>
            \E t \in RunThreads : /\ ingest_lock = t /\ ingest_lock' = t
                                  /\ pc[t] = "acquired" /\ pc'[t] # pc[t]]_vars
    /\ [][ingest_running /\ ingest_running' => ingest_lock' = ingest_lock]_vars
    /\ [][ingest_lock # Free /\ ingest_lock' = Free => ~ingest_running]_vars

\* a second run, after a first one released the guard, is about to reset
\* the flag after a failure, another trigger having been skipped meanwhile
C20_Witness ==
    \E t \in RunThreads, u \in RunThreads :
        /\ t # u /\ ingest_running /\ ingest_lock = t
        /\ pc[t] = "finally" /\ outcome[t] = "fail_store"
        /\ outcome[u] = "skipped" /\ disk.gen >= 1

\* the step is the return of _run_ingest of thread t without the lock
Skips(t) == pc[t] = "start" /\ pc'[t] = "returned"

\* C21: a trigger that fails to acquire the guard changes nothing and finds
\* an ingestion recorded as running: it leaves the lock with the run that
\* holds it, the running flag true, and the persisted Index and the
\* reference of the query path as they are.
C21_SkipLeavesRunRecorded ==
    [][\A t \in RunThreads : Skips(t) =>
            /\ ingest_lock \in RunThreads \ {t} /\ ingest_lock' = ingest_lock
            /\ ingest_running /\ ingest_running'
            /\ disk' = disk /\ vectorstore' = vectorstore]_vars

\* the step is one of a request handler: /query, /debug and /health change
\* nothing but the position of /query and what was read, POST /ingest
\* nothing but the background task it adds
HandlerStep == qpc' # qpc \/ seen' # seen \/ started' # started

\* C22: only ingestion mutates the Index. The handlers of /query, /debug,
\* /health and POST /ingest leave the persisted Index and the reference of
\* the query path as they are; the persisted Index changes only in the
\* discard and in the write of a run of ingest(); and the reference
\* changes only at startup, at shutdown and in the reload of a run whose
\* ingest() returned.
C22_OnlyIngestionMutates ==
    /\ [][HandlerStep => disk' = disk /\ vectorstore' = vectorstore]_vars
    /\ [][disk' # disk =>
            \E t \in Threads : pc[t] \in {"discard", "write"} /\ pc'[t] # pc[t]]_vars
    /\ [][vectorstore' # vectorstore =>
            \/ app = "open" /\ app' = "serving"
            \/ app = "serving" /\ app' = "stopped"
            \/ \E t \in RunThreads :
                  pc[t] = "reload" /\ pc'[t] = "finally" /\ outcome'[t] = "ok"]_vars

\* the handlers have read the Index, one of them during the rebuild, and
\* POST /ingest has started a task, and the query path still holds the
\* reference that startup left while a run has rewritten the Index
C22_Witness ==
    /\ app = "serving" /\ seen = "torn" /\ started # {}
    /\ vectorstore = 0 /\ disk.exists /\ disk.gen = 1
    /\ \E t \in RunThreads : pc[t] = "reload"

====
